---- MODULE Spec2Model ----
(***************************************************************************)
(* The two tutorial notebooks of the repository, src/pybamm.ipynb and      *)
(* src/unnamed/part_000, run top to bottom by a Jupyter kernel each.       *)
(*                                                                         *)
(* A notebook is a sequence of cells; a code cell is a sequence of         *)
(* statements.  The statements are kept as data, transcribed cell by cell  *)
(* from each file, and executed by the actions below: one action per kind  *)
(* of statement, a library call taking two steps (the call, then its       *)
(* return or the exception it raises).  The library itself (PyBaMM) is not *)
(* part of the repository: a call is modelled by the objects it creates    *)
(* and the arguments it was given, never by what it computes.              *)
(***************************************************************************)
EXTENDS Integers, Sequences, FiniteSets, TLC

VARIABLES cell, pc, status, env, heap, stack, loop, inflight, calls,
          raised, err, out, ran

vars == <<cell, pc, status, env, heap, stack, loop, inflight, calls,
          raised, err, out, ran>>

Notebooks == {"pybamm.ipynb", "part_000"}

(***************************************************************************)
(* Python values.  Every value is a record of the same shape, so that any  *)
(* two values can be compared.                                             *)
(***************************************************************************)
Val(t, n, s, l) == [t |-> t, n |-> n, s |-> s, l |-> l]
None        == Val("none", 0, "", <<>>)
Unbound     == Val("unbound", 0, "", <<>>)
Module(s)   == Val("module", 0, s, <<>>)
PyInt(n)      == Val("int", n, "", <<>>)
\* a float literal with no fractional part (2.0, 5.0)
PyFloat(n)    == Val("float", n, "", <<>>)
PyStr(s)      == Val("str", 0, s, <<>>)
PyList(l)     == Val("list", 0, "", l)
PyTuple(l)    == Val("tuple", 0, "", l)
\* a dict is the sequence of its items, in insertion order
Item(k, v)  == Val("item", 0, k, <<v>>)
PyDict(l)     == Val("dict", 0, "", l)
\* a reference to the object at heap[n]
Ref(n)      == Val("ref", n, "", <<>>)

HasKey(d, k) == \E j \in 1..Len(d.l) : d.l[j].s = k
Get(d, k)    == LET j == CHOOSE j \in 1..Len(d.l) : d.l[j].s = k IN d.l[j].l[1]
GetOr(d, k, dflt) == IF HasKey(d, k) THEN Get(d, k) ELSE dflt
\* d[k] = v : replaces the value of an existing key in place, appends a new key
SetKey(d, k, v) ==
    IF HasKey(d, k)
    THEN PyDict([j \in 1..Len(d.l) |-> IF d.l[j].s = k THEN Item(k, v) ELSE d.l[j]])
    ELSE PyDict(Append(d.l, Item(k, v)))

(***************************************************************************)
(* Expressions of the notebooks' statements.                               *)
(***************************************************************************)
Expr(e, id, val, pre, post) == [e |-> e, id |-> id, val |-> val, pre |-> pre, post |-> post]
Name(id)          == Expr("name", id, None, "", "")
Lit(val)          == Expr("lit", "", val, "", "")
\* f"{pre}{id}{post}"
FStr(pre, id, post) == Expr("fstr", id, None, pre, post)
\* {key: id}
DictOf(key, id)   == Expr("dict", id, None, key, "")
\* id.attr
Attr(id, attr)    == Expr("attr", id, None, attr, "")
\* range(lo, hi)
Range(lo, hi)     == Expr("range", "", PyTuple(<<PyInt(lo), PyInt(hi)>>), "", "")
\* [v1, v2, ...] of the values the preceding calls of the statement pushed
StackList         == Expr("stacklist", "", None, "", "")
\* the value the preceding call of the statement pushed
Top               == Expr("top", "", None, "", "")

\* the names an expression reads
Reads(ex) == IF ex.e \in {"name", "fstr", "dict", "attr"} THEN {ex.id} ELSE {}

RangeList(lo, hi) == [k \in 1..(IF hi > lo THEN hi - lo ELSE 0) |-> PyInt(lo + k - 1)]

\* str.format of a value inside an f-string
Format(v) == IF v.t = "int" THEN ToString(v.n)
             ELSE IF v.t = "float" THEN ToString(v.n) \o ".0"
             ELSE v.s

Eval(en, st, ex) ==
    CASE ex.e = "name"      -> en[ex.id]
      [] ex.e = "lit"       -> ex.val
      [] ex.e = "fstr"      -> PyStr(ex.pre \o Format(en[ex.id]) \o ex.post)
      [] ex.e = "dict"      -> PyDict(<<Item(ex.pre, en[ex.id])>>)
      [] ex.e = "attr"      -> Val("attr", en[ex.id].n, ex.pre, <<>>)
      [] ex.e = "range"     -> PyList(RangeList(ex.val.l[1].n, ex.val.l[2].n))
      [] ex.e = "stacklist" -> PyList(st)
      [] ex.e = "top"       -> st[Len(st)]

(***************************************************************************)
(* Statements.                                                             *)
(***************************************************************************)
Instr(op, target, recv, fn, args, kw, ex, jump) ==
    [op |-> op, target |-> target, recv |-> recv, fn |-> fn, args |-> args,
     kw |-> kw, ex |-> ex, jump |-> jump]
NoEx == Lit(None)
\* import name
ImportI(name)             == Instr("import", name, "", "", <<>>, <<>>, NoEx, 0)
\* target = recv.fn(args, kw); target "" discards the result (an expression
\* statement), target "$" pushes it for the enclosing expression
CallI(target, recv, fn, args, kw) == Instr("call", target, recv, fn, args, kw, NoEx, 0)
\* target = ex
AssignI(target, ex)       == Instr("assign", target, "", "", <<>>, <<>>, ex, 0)
\* recv[key] = ex
SetItemI(recv, key, ex)   == Instr("setitem", "", recv, key, <<>>, <<>>, ex, 0)
\* recv.append(ex)
AppendI(recv, ex)         == Instr("append", "", recv, "", <<>>, <<>>, ex, 0)
\* for target in ex: ... ; the loop head is FOR_ITER, which leaves the loop
\* for the statement at index jump; JUMP_BACKWARD goes back to the head
GetIterI(ex)              == Instr("GET_ITER", "", "", "", <<>>, <<>>, ex, 0)
ForIterI(target, jump)    == Instr("FOR_ITER", target, "", "", <<>>, <<>>, NoEx, jump)
JumpBackwardI(jump)       == Instr("JUMP_BACKWARD", "", "", "", <<>>, <<>>, NoEx, jump)
\* print(ex)
StdoutI(ex)               == Instr("print", "", "", "", <<>>, <<>>, ex, 0)
\* ex   (an expression statement that is no call)
ExprI(ex)                 == Instr("expr", "", "", "", <<>>, <<>>, ex, 0)

Kw(name, ex) == <<name, ex>>

Markdown == [cell_type |-> "markdown", execution_count |-> None, source |-> <<>>]
Code(count, source) == [cell_type |-> "code", execution_count |-> count, source |-> source]

\* [a, b]
Pair(a, b) == Lit(PyList(<<PyInt(a), PyInt(b)>>))
(***************************************************************************)
(* src/pybamm.ipynb.  cellNN is the cell at index NN of the file's "cells" *)
(* array; execution_count is the count recorded in the file.               *)
(***************************************************************************)
pybamm_ipynb_cell01 == Code(PyInt(4), <<
    ImportI("pybamm") >>)

pybamm_ipynb_cell03 == Code(PyInt(5), <<
    CallI("model", "pybamm", "lithium_ion.DFN", <<>>, <<>>) >>)

\* the Simulation built from a name that no earlier statement binds
cell05_unbound == Code(PyInt(6), <<
    CallI("simulation", "pybamm", "Simulation", <<Name("sim")>>, <<>>) >>)

pybamm_ipynb_cell05 == Code(PyInt(6), <<
    CallI("simulation", "pybamm", "Simulation", <<Name("model")>>, <<>>) >>)

pybamm_ipynb_cell07 == Code(PyInt(7), <<
    CallI("", "simulation", "solve", <<Pair(0, 3600)>>, <<>>) >>)

pybamm_ipynb_cell09 == Code(PyInt(8), <<
    CallI("", "simulation", "plot", <<>>, <<>>) >>)

\* the model comparison with the solve left out of the loop
cell11_unsolved == Code(PyInt(9), <<
    CallI("$", "pybamm", "lithium_ion.SPM", <<>>, <<>>),
    CallI("$", "pybamm", "lithium_ion.SPMe", <<>>, <<>>),
    CallI("$", "pybamm", "lithium_ion.DFN", <<>>, <<>>),
    AssignI("models", StackList),
    AssignI("simulations", Lit(PyList(<<>>))),
    GetIterI(Name("models")),
    ForIterI("model", 11),
    CallI("simulation", "pybamm", "Simulation", <<Name("model")>>, <<>>),
    AppendI("simulations", Name("simulation")),
    JumpBackwardI(7),
    CallI("", "pybamm", "dynamic_plot", <<Name("simulations")>>, <<>>) >>)

\* the model comparison with the DFN first in the list
cell11_dfn_first == Code(PyInt(9), <<
    CallI("$", "pybamm", "lithium_ion.DFN", <<>>, <<>>),
    CallI("$", "pybamm", "lithium_ion.SPM", <<>>, <<>>),
    CallI("$", "pybamm", "lithium_ion.SPMe", <<>>, <<>>),
    AssignI("models", StackList),
    AssignI("simulations", Lit(PyList(<<>>))),
    GetIterI(Name("models")),
    ForIterI("model", 12),
    CallI("simulation", "pybamm", "Simulation", <<Name("model")>>, <<>>),
    CallI("", "simulation", "solve", <<Pair(0, 3600)>>, <<>>),
    AppendI("simulations", Name("simulation")),
    JumpBackwardI(7),
    CallI("", "pybamm", "dynamic_plot", <<Name("simulations")>>, <<>>) >>)

\* the model comparison
pybamm_ipynb_cell11 == Code(PyInt(9), <<
    CallI("$", "pybamm", "lithium_ion.SPM", <<>>, <<>>),
    CallI("$", "pybamm", "lithium_ion.SPMe", <<>>, <<>>),
    CallI("$", "pybamm", "lithium_ion.DFN", <<>>, <<>>),
    AssignI("models", StackList),
    AssignI("simulations", Lit(PyList(<<>>))),
    GetIterI(Name("models")),
    ForIterI("model", 12),
    CallI("simulation", "pybamm", "Simulation", <<Name("model")>>, <<>>),
    CallI("", "simulation", "solve", <<Pair(0, 3600)>>, <<>>),
    AppendI("simulations", Name("simulation")),
    JumpBackwardI(7),
    CallI("", "pybamm", "dynamic_plot", <<Name("simulations")>>, <<>>) >>)

pybamm_ipynb_cell13 == Code(PyInt(10), <<
    CallI("parameter_values", "pybamm", "ParameterValues", <<Lit(PyStr("Chen2020"))>>, <<>>),
    StdoutI(Name("parameter_values")) >>)

\* the parameter update with the override written after the Simulation is built
cell15_late_override == Code(None, <<
    CallI("sim", "pybamm", "Simulation", <<Name("model")>>,
          <<Kw("parameter_values", Name("parameter_values"))>>),
    SetItemI("parameter_values", "Current function [A]", Lit(PyFloat(2))),
    CallI("", "sim", "solve", <<Pair(0, 3600)>>, <<>>) >>)

\* the parameter update
pybamm_ipynb_cell15 == Code(None, <<
    SetItemI("parameter_values", "Current function [A]", Lit(PyFloat(2))),
    CallI("sim", "pybamm", "Simulation", <<Name("model")>>,
          <<Kw("parameter_values", Name("parameter_values"))>>),
    CallI("", "sim", "solve", <<Pair(0, 3600)>>, <<>>) >>)

\* the sweep with the Simulation built inside the loop
cell17_rebuilt == Code(PyInt(14), <<
    CallI("parameter_values", "pybamm", "ParameterValues", <<Lit(PyStr("Chen2020"))>>, <<>>),
    SetItemI("parameter_values", "Current function [A]", Lit(PyStr("[input]"))),
    CallI("model", "pybamm", "lithium_ion.SPM", <<>>, <<>>),
    AssignI("solutions", Lit(PyList(<<>>))),
    AssignI("labels", Lit(PyList(<<>>))),
    GetIterI(Range(1, 5)),
    ForIterI("i", 13),
    CallI("sim", "pybamm", "Simulation", <<Name("model")>>,
          <<Kw("parameter_values", Name("parameter_values"))>>),
    CallI("sol", "sim", "solve", <<Pair(0, 3600)>>,
          <<Kw("inputs", DictOf("Current function [A]", "i"))>>),
    AppendI("solutions", Name("sol")),
    AppendI("labels", FStr("Current = ", "i", " [A]")),
    JumpBackwardI(7),
    CallI("", "pybamm", "dynamic_plot", <<Name("solutions")>>,
          <<Kw("labels", Name("labels"))>>) >>)

\* the sweep on the container the earlier cells left, without a new one
cell17_carried == Code(PyInt(14), <<
    SetItemI("parameter_values", "Current function [A]", Lit(PyStr("[input]"))),
    CallI("model", "pybamm", "lithium_ion.SPM", <<>>, <<>>),
    CallI("sim", "pybamm", "Simulation", <<Name("model")>>,
          <<Kw("parameter_values", Name("parameter_values"))>>),
    AssignI("solutions", Lit(PyList(<<>>))),
    AssignI("labels", Lit(PyList(<<>>))),
    GetIterI(Range(1, 5)),
    ForIterI("i", 12),
    CallI("sol", "sim", "solve", <<Pair(0, 3600)>>,
          <<Kw("inputs", DictOf("Current function [A]", "i"))>>),
    AppendI("solutions", Name("sol")),
    AppendI("labels", FStr("Current = ", "i", " [A]")),
    JumpBackwardI(7),
    CallI("", "pybamm", "dynamic_plot", <<Name("solutions")>>,
          <<Kw("labels", Name("labels"))>>) >>)

\* the sweep with its SPM model bound to another name
cell17_other_name == Code(PyInt(14), <<
    CallI("parameter_values", "pybamm", "ParameterValues", <<Lit(PyStr("Chen2020"))>>, <<>>),
    SetItemI("parameter_values", "Current function [A]", Lit(PyStr("[input]"))),
    CallI("solution", "pybamm", "lithium_ion.SPM", <<>>, <<>>),
    CallI("sim", "pybamm", "Simulation", <<Name("solution")>>,
          <<Kw("parameter_values", Name("parameter_values"))>>),
    AssignI("solutions", Lit(PyList(<<>>))),
    AssignI("labels", Lit(PyList(<<>>))),
    GetIterI(Range(1, 5)),
    ForIterI("i", 13),
    CallI("sol", "sim", "solve", <<Pair(0, 3600)>>,
          <<Kw("inputs", DictOf("Current function [A]", "i"))>>),
    AppendI("solutions", Name("sol")),
    AppendI("labels", FStr("Current = ", "i", " [A]")),
    JumpBackwardI(8),
    CallI("", "pybamm", "dynamic_plot", <<Name("solutions")>>,
          <<Kw("labels", Name("labels"))>>) >>)

\* the sweep over five currents
cell17_five == Code(PyInt(14), <<
    CallI("parameter_values", "pybamm", "ParameterValues", <<Lit(PyStr("Chen2020"))>>, <<>>),
    SetItemI("parameter_values", "Current function [A]", Lit(PyStr("[input]"))),
    CallI("model", "pybamm", "lithium_ion.SPM", <<>>, <<>>),
    CallI("sim", "pybamm", "Simulation", <<Name("model")>>,
          <<Kw("parameter_values", Name("parameter_values"))>>),
    AssignI("solutions", Lit(PyList(<<>>))),
    AssignI("labels", Lit(PyList(<<>>))),
    GetIterI(Range(1, 6)),
    ForIterI("i", 13),
    CallI("sol", "sim", "solve", <<Pair(0, 3600)>>,
          <<Kw("inputs", DictOf("Current function [A]", "i"))>>),
    AppendI("solutions", Name("sol")),
    AppendI("labels", FStr("Current = ", "i", " [A]")),
    JumpBackwardI(8),
    CallI("", "pybamm", "dynamic_plot", <<Name("solutions")>>,
          <<Kw("labels", Name("labels"))>>) >>)

\* the input-parameter sweep
pybamm_ipynb_cell17 == Code(PyInt(14), <<
    CallI("parameter_values", "pybamm", "ParameterValues", <<Lit(PyStr("Chen2020"))>>, <<>>),
    SetItemI("parameter_values", "Current function [A]", Lit(PyStr("[input]"))),
    CallI("model", "pybamm", "lithium_ion.SPM", <<>>, <<>>),
    CallI("sim", "pybamm", "Simulation", <<Name("model")>>,
          <<Kw("parameter_values", Name("parameter_values"))>>),
    AssignI("solutions", Lit(PyList(<<>>))),
    AssignI("labels", Lit(PyList(<<>>))),
    GetIterI(Range(1, 5)),
    ForIterI("i", 13),
    CallI("sol", "sim", "solve", <<Pair(0, 3600)>>,
          <<Kw("inputs", DictOf("Current function [A]", "i"))>>),
    AppendI("solutions", Name("sol")),
    AppendI("labels", FStr("Current = ", "i", " [A]")),
    JumpBackwardI(8),
    CallI("", "pybamm", "dynamic_plot", <<Name("solutions")>>,
          <<Kw("labels", Name("labels"))>>) >>)

pybamm_ipynb_cell19 == Code(PyInt(15), <<
    ExprI(Attr("model", "submodels")) >>)

\* the thermal comparison appending to the list the sweep left
cell21_keeps_solutions == Code(PyInt(16), <<
    AssignI("thermal_options", Lit(PyList(<<PyStr("isothermal"), PyStr("x-full")>>))),
    GetIterI(Name("thermal_options")),
    ForIterI("option", 9),
    CallI("model", "pybamm", "lithium_ion.DFN", <<>>,
          <<Kw("name", Name("option")), Kw("options", DictOf("thermal", "option"))>>),
    CallI("simulation", "pybamm", "Simulation", <<Name("model")>>, <<>>),
    CallI("$", "simulation", "solve", <<Pair(0, 3600)>>, <<>>),
    AppendI("solutions", Top),
    JumpBackwardI(3),
    CallI("", "pybamm", "dynamic_plot", <<Name("solutions")>>,
          <<Kw("output_variables", Lit(PyList(<<
              PyStr("Negative particle surface concentration [mol.m-3]"),
              PyStr("Electrolyte concentration [mol.m-3]"),
              PyStr("Positive particle surface concentration [mol.m-3]"),
              PyStr("Negative electrode potential [V]"),
              PyStr("Electrolyte potential [V]"),
              PyStr("Positive electrode potential [V]"),
              PyStr("Current [A]"),
              PyStr("Voltage [V]"),
              PyStr("Cell temperature [K]") >>)))>>) >>)

\* the thermal comparison with the last parameter container passed on
cell21_with_parameters == Code(PyInt(16), <<
    AssignI("thermal_options", Lit(PyList(<<PyStr("isothermal"), PyStr("x-full")>>))),
    AssignI("solutions", Lit(PyList(<<>>))),
    GetIterI(Name("thermal_options")),
    ForIterI("option", 10),
    CallI("model", "pybamm", "lithium_ion.DFN", <<>>,
          <<Kw("name", Name("option")), Kw("options", DictOf("thermal", "option"))>>),
    CallI("simulation", "pybamm", "Simulation", <<Name("model")>>,
          <<Kw("parameter_values", Name("parameter_values"))>>),
    CallI("$", "simulation", "solve", <<Pair(0, 3600)>>, <<>>),
    AppendI("solutions", Top),
    JumpBackwardI(4),
    CallI("", "pybamm", "dynamic_plot", <<Name("solutions")>>,
          <<Kw("output_variables", Lit(PyList(<<
              PyStr("Negative particle surface concentration [mol.m-3]"),
              PyStr("Electrolyte concentration [mol.m-3]"),
              PyStr("Positive particle surface concentration [mol.m-3]"),
              PyStr("Negative electrode potential [V]"),
              PyStr("Electrolyte potential [V]"),
              PyStr("Positive electrode potential [V]"),
              PyStr("Current [A]"),
              PyStr("Voltage [V]"),
              PyStr("Cell temperature [K]") >>)))>>) >>)

\* the thermal comparison
pybamm_ipynb_cell21 == Code(PyInt(16), <<
    AssignI("thermal_options", Lit(PyList(<<PyStr("isothermal"), PyStr("x-full")>>))),
    AssignI("solutions", Lit(PyList(<<>>))),
    GetIterI(Name("thermal_options")),
    ForIterI("option", 10),
    CallI("model", "pybamm", "lithium_ion.DFN", <<>>,
          <<Kw("name", Name("option")), Kw("options", DictOf("thermal", "option"))>>),
    CallI("simulation", "pybamm", "Simulation", <<Name("model")>>, <<>>),
    CallI("$", "simulation", "solve", <<Pair(0, 3600)>>, <<>>),
    AppendI("solutions", Top),
    JumpBackwardI(4),
    CallI("", "pybamm", "dynamic_plot", <<Name("solutions")>>,
          <<Kw("output_variables", Lit(PyList(<<
              PyStr("Negative particle surface concentration [mol.m-3]"),
              PyStr("Electrolyte concentration [mol.m-3]"),
              PyStr("Positive particle surface concentration [mol.m-3]"),
              PyStr("Negative electrode potential [V]"),
              PyStr("Electrolyte potential [V]"),
              PyStr("Positive electrode potential [V]"),
              PyStr("Current [A]"),
              PyStr("Voltage [V]"),
              PyStr("Cell temperature [K]") >>)))>>) >>)

\* the particle mechanics
pybamm_ipynb_cell24 == Code(PyInt(17), <<
    CallI("model", "pybamm", "lithium_ion.DFN", <<>>,
          <<Kw("options", Lit(PyDict(<<Item("particle mechanics",
              PyTuple(<<PyStr("swelling only"), PyStr("swelling and cracking")>>))>>)))>>),
    CallI("parameter_values", "pybamm", "ParameterValues", <<Lit(PyStr("Ai2020"))>>, <<>>),
    CallI("simulation", "pybamm", "Simulation", <<Name("model")>>,
          <<Kw("parameter_values", Name("parameter_values"))>>),
    CallI("solution", "simulation", "solve", <<Pair(0, 3600)>>, <<>>),
    CallI("", "solution", "plot", <<Lit(PyList(<<
              PyStr("Negative particle surface radial stress [Pa]"),
              PyStr("Negative particle surface tangential stress [Pa]"),
              PyStr("Negative particle surface displacement [m]"),
              PyStr("Negative particle crack length [m]"),
              PyStr("Positive particle surface radial stress [Pa]"),
              PyStr("Positive particle surface tangential stress [Pa]"),
              PyStr("Positive particle surface displacement [m]"),
              PyStr("Positive particle crack length [m]") >>))>>, <<>>) >>)

\* src/pybamm.ipynb: the cells in document order
pybamm_ipynb == <<
    Markdown, pybamm_ipynb_cell01, Markdown, pybamm_ipynb_cell03, Markdown, pybamm_ipynb_cell05, Markdown,
    pybamm_ipynb_cell07, Markdown, pybamm_ipynb_cell09, Markdown, pybamm_ipynb_cell11, Markdown, pybamm_ipynb_cell13,
    Markdown, pybamm_ipynb_cell15, Markdown, pybamm_ipynb_cell17, Markdown, pybamm_ipynb_cell19, Markdown,
    pybamm_ipynb_cell21, Markdown, Markdown, pybamm_ipynb_cell24, Markdown >>

(***************************************************************************)
(* src/unnamed/part_000, transcribed the same way.                         *)
(***************************************************************************)
part_000_cell01 == Code(PyInt(1), <<
    ImportI("pybamm") >>)

part_000_cell03 == Code(PyInt(2), <<
    CallI("model", "pybamm", "lithium_ion.DFN", <<>>, <<>>) >>)

part_000_cell05 == Code(PyInt(3), <<
    CallI("simulation", "pybamm", "Simulation", <<Name("model")>>, <<>>) >>)

part_000_cell07 == Code(PyInt(4), <<
    CallI("", "simulation", "solve", <<Pair(0, 3600)>>, <<>>) >>)

part_000_cell09 == Code(PyInt(5), <<
    CallI("", "simulation", "plot", <<>>, <<>>) >>)

\* the model comparison appending each simulation before it is solved
cell11_append_first == Code(PyInt(6), <<
    CallI("$", "pybamm", "lithium_ion.SPM", <<>>, <<>>),
    CallI("$", "pybamm", "lithium_ion.SPMe", <<>>, <<>>),
    CallI("$", "pybamm", "lithium_ion.DFN", <<>>, <<>>),
    AssignI("models", StackList),
    AssignI("simulations", Lit(PyList(<<>>))),
    GetIterI(Name("models")),
    ForIterI("model", 12),
    CallI("simulation", "pybamm", "Simulation", <<Name("model")>>, <<>>),
    AppendI("simulations", Name("simulation")),
    CallI("", "simulation", "solve", <<Pair(0, 3600)>>, <<>>),
    JumpBackwardI(7),
    CallI("", "pybamm", "dynamic_plot", <<Name("simulations")>>, <<>>) >>)

\* the model comparison
part_000_cell11 == Code(PyInt(6), <<
    CallI("$", "pybamm", "lithium_ion.SPM", <<>>, <<>>),
    CallI("$", "pybamm", "lithium_ion.SPMe", <<>>, <<>>),
    CallI("$", "pybamm", "lithium_ion.DFN", <<>>, <<>>),
    AssignI("models", StackList),
    AssignI("simulations", Lit(PyList(<<>>))),
    GetIterI(Name("models")),
    ForIterI("model", 12),
    CallI("simulation", "pybamm", "Simulation", <<Name("model")>>, <<>>),
    CallI("", "simulation", "solve", <<Pair(0, 3600)>>, <<>>),
    AppendI("simulations", Name("simulation")),
    JumpBackwardI(7),
    CallI("", "pybamm", "dynamic_plot", <<Name("simulations")>>, <<>>) >>)

part_000_cell13 == Code(PyInt(7), <<
    CallI("parameter_values", "pybamm", "ParameterValues", <<Lit(PyStr("Chen2020"))>>, <<>>),
    StdoutI(Name("parameter_values")) >>)

\* the parameter update
part_000_cell15 == Code(PyInt(8), <<
    SetItemI("parameter_values", "Current function [A]", Lit(PyFloat(2))),
    CallI("sim", "pybamm", "Simulation", <<Name("model")>>,
          <<Kw("parameter_values", Name("parameter_values"))>>),
    CallI("", "sim", "solve", <<Pair(0, 3600)>>, <<>>) >>)

\* the sweep with the label appended once, after the loop
cell17_label_after == Code(PyInt(9), <<
    CallI("parameter_values", "pybamm", "ParameterValues", <<Lit(PyStr("Chen2020"))>>, <<>>),
    SetItemI("parameter_values", "Current function [A]", Lit(PyStr("[input]"))),
    CallI("model", "pybamm", "lithium_ion.SPM", <<>>, <<>>),
    CallI("sim", "pybamm", "Simulation", <<Name("model")>>,
          <<Kw("parameter_values", Name("parameter_values"))>>),
    AssignI("solutions", Lit(PyList(<<>>))),
    AssignI("labels", Lit(PyList(<<>>))),
    GetIterI(Range(1, 5)),
    ForIterI("i", 12),
    CallI("sol", "sim", "solve", <<Pair(0, 3600)>>,
          <<Kw("inputs", DictOf("Current function [A]", "i"))>>),
    AppendI("solutions", Name("sol")),
    JumpBackwardI(8),
    AppendI("labels", FStr("Current = ", "i", " [A]")),
    CallI("", "pybamm", "dynamic_plot", <<Name("solutions")>>,
          <<Kw("labels", Name("labels"))>>) >>)

\* the sweep over range(1, 4)
cell17_short == Code(PyInt(9), <<
    CallI("parameter_values", "pybamm", "ParameterValues", <<Lit(PyStr("Chen2020"))>>, <<>>),
    SetItemI("parameter_values", "Current function [A]", Lit(PyStr("[input]"))),
    CallI("model", "pybamm", "lithium_ion.SPM", <<>>, <<>>),
    CallI("sim", "pybamm", "Simulation", <<Name("model")>>,
          <<Kw("parameter_values", Name("parameter_values"))>>),
    AssignI("solutions", Lit(PyList(<<>>))),
    AssignI("labels", Lit(PyList(<<>>))),
    GetIterI(Range(1, 4)),
    ForIterI("i", 13),
    CallI("sol", "sim", "solve", <<Pair(0, 3600)>>,
          <<Kw("inputs", DictOf("Current function [A]", "i"))>>),
    AppendI("solutions", Name("sol")),
    AppendI("labels", FStr("Current = ", "i", " [A]")),
    JumpBackwardI(8),
    CallI("", "pybamm", "dynamic_plot", <<Name("solutions")>>,
          <<Kw("labels", Name("labels"))>>) >>)

\* the input-parameter sweep
part_000_cell17 == Code(PyInt(9), <<
    CallI("parameter_values", "pybamm", "ParameterValues", <<Lit(PyStr("Chen2020"))>>, <<>>),
    SetItemI("parameter_values", "Current function [A]", Lit(PyStr("[input]"))),
    CallI("model", "pybamm", "lithium_ion.SPM", <<>>, <<>>),
    CallI("sim", "pybamm", "Simulation", <<Name("model")>>,
          <<Kw("parameter_values", Name("parameter_values"))>>),
    AssignI("solutions", Lit(PyList(<<>>))),
    AssignI("labels", Lit(PyList(<<>>))),
    GetIterI(Range(1, 5)),
    ForIterI("i", 13),
    CallI("sol", "sim", "solve", <<Pair(0, 3600)>>,
          <<Kw("inputs", DictOf("Current function [A]", "i"))>>),
    AppendI("solutions", Name("sol")),
    AppendI("labels", FStr("Current = ", "i", " [A]")),
    JumpBackwardI(8),
    CallI("", "pybamm", "dynamic_plot", <<Name("solutions")>>,
          <<Kw("labels", Name("labels"))>>) >>)

part_000_cell19 == Code(PyInt(10), <<
    ExprI(Attr("model", "submodels")) >>)

\* the thermal comparison solved over two hours
cell21_two_hours == Code(PyInt(11), <<
    AssignI("thermal_options", Lit(PyList(<<PyStr("isothermal"), PyStr("x-full")>>))),
    AssignI("solutions", Lit(PyList(<<>>))),
    GetIterI(Name("thermal_options")),
    ForIterI("option", 10),
    CallI("model", "pybamm", "lithium_ion.DFN", <<>>,
          <<Kw("name", Name("option")), Kw("options", DictOf("thermal", "option"))>>),
    CallI("simulation", "pybamm", "Simulation", <<Name("model")>>, <<>>),
    CallI("$", "simulation", "solve", <<Pair(0, 7200)>>, <<>>),
    AppendI("solutions", Top),
    JumpBackwardI(4),
    CallI("", "pybamm", "dynamic_plot", <<Name("solutions")>>,
          <<Kw("output_variables", Lit(PyList(<<
              PyStr("Negative particle surface concentration [mol.m-3]"),
              PyStr("Electrolyte concentration [mol.m-3]"),
              PyStr("Positive particle surface concentration [mol.m-3]"),
              PyStr("Negative electrode potential [V]"),
              PyStr("Electrolyte potential [V]"),
              PyStr("Positive electrode potential [V]"),
              PyStr("Current [A]"),
              PyStr("Voltage [V]"),
              PyStr("Cell temperature [K]") >>)))>>) >>)

\* the thermal comparison
part_000_cell21 == Code(PyInt(11), <<
    AssignI("thermal_options", Lit(PyList(<<PyStr("isothermal"), PyStr("x-full")>>))),
    AssignI("solutions", Lit(PyList(<<>>))),
    GetIterI(Name("thermal_options")),
    ForIterI("option", 10),
    CallI("model", "pybamm", "lithium_ion.DFN", <<>>,
          <<Kw("name", Name("option")), Kw("options", DictOf("thermal", "option"))>>),
    CallI("simulation", "pybamm", "Simulation", <<Name("model")>>, <<>>),
    CallI("$", "simulation", "solve", <<Pair(0, 3600)>>, <<>>),
    AppendI("solutions", Top),
    JumpBackwardI(4),
    CallI("", "pybamm", "dynamic_plot", <<Name("solutions")>>,
          <<Kw("output_variables", Lit(PyList(<<
              PyStr("Negative particle surface concentration [mol.m-3]"),
              PyStr("Electrolyte concentration [mol.m-3]"),
              PyStr("Positive particle surface concentration [mol.m-3]"),
              PyStr("Negative electrode potential [V]"),
              PyStr("Electrolyte potential [V]"),
              PyStr("Positive electrode potential [V]"),
              PyStr("Current [A]"),
              PyStr("Voltage [V]"),
              PyStr("Cell temperature [K]") >>)))>>) >>)

\* the particle mechanics with the two electrodes' options exchanged
cell24_swapped == Code(PyInt(12), <<
    CallI("model", "pybamm", "lithium_ion.DFN", <<>>,
          <<Kw("options", Lit(PyDict(<<Item("particle mechanics",
              PyTuple(<<PyStr("swelling and cracking"), PyStr("swelling only")>>))>>)))>>),
    CallI("parameter_values", "pybamm", "ParameterValues", <<Lit(PyStr("Ai2020"))>>, <<>>),
    CallI("simulation", "pybamm", "Simulation", <<Name("model")>>,
          <<Kw("parameter_values", Name("parameter_values"))>>),
    CallI("solution", "simulation", "solve", <<Pair(0, 3600)>>, <<>>),
    CallI("", "solution", "plot", <<Lit(PyList(<<
              PyStr("Negative particle surface radial stress [Pa]"),
              PyStr("Negative particle surface tangential stress [Pa]"),
              PyStr("Negative particle surface displacement [m]"),
              PyStr("Negative particle crack length [m]"),
              PyStr("Positive particle surface radial stress [Pa]"),
              PyStr("Positive particle surface tangential stress [Pa]"),
              PyStr("Positive particle surface displacement [m]"),
              PyStr("Positive particle crack length [m]") >>))>>, <<>>) >>)

\* the particle mechanics
part_000_cell24 == Code(PyInt(12), <<
    CallI("model", "pybamm", "lithium_ion.DFN", <<>>,
          <<Kw("options", Lit(PyDict(<<Item("particle mechanics",
              PyTuple(<<PyStr("swelling only"), PyStr("swelling and cracking")>>))>>)))>>),
    CallI("parameter_values", "pybamm", "ParameterValues", <<Lit(PyStr("Ai2020"))>>, <<>>),
    CallI("simulation", "pybamm", "Simulation", <<Name("model")>>,
          <<Kw("parameter_values", Name("parameter_values"))>>),
    CallI("solution", "simulation", "solve", <<Pair(0, 3600)>>, <<>>),
    CallI("", "solution", "plot", <<Lit(PyList(<<
              PyStr("Negative particle surface radial stress [Pa]"),
              PyStr("Negative particle surface tangential stress [Pa]"),
              PyStr("Negative particle surface displacement [m]"),
              PyStr("Negative particle crack length [m]"),
              PyStr("Positive particle surface radial stress [Pa]"),
              PyStr("Positive particle surface tangential stress [Pa]"),
              PyStr("Positive particle surface displacement [m]"),
              PyStr("Positive particle crack length [m]") >>))>>, <<>>) >>)

\* src/unnamed/part_000: the cells in document order
part_000 == <<
    Markdown, part_000_cell01, Markdown, part_000_cell03, Markdown, part_000_cell05, Markdown,
    part_000_cell07, Markdown, part_000_cell09, Markdown, part_000_cell11, Markdown, part_000_cell13,
    Markdown, part_000_cell15, Markdown, part_000_cell17, Markdown, part_000_cell19, Markdown,
    part_000_cell21, Markdown, Markdown, part_000_cell24, Markdown, Markdown >>

Cells(nb) == IF nb = "pybamm.ipynb" THEN pybamm_ipynb ELSE part_000

\* the places, in either notebook's sequence of cells, of the model comparison,
\* the parameter update, the sweep, the thermal comparison and the particle
\* mechanics (the file's cell index plus one)
CompareCell   == 12
UpdateCell    == 16
SweepCell     == 18
ThermalCell   == 22
MechanicsCell == 25
\* the cell that displays model.submodels
SubmodelsCell == 20
(***************************************************************************)
(* The objects the library calls create.  Every object is a record of the  *)
(* same shape; a field an object of some kind does not have is None.       *)
(***************************************************************************)
\* by is the number, in the kernel's sequence of calls, of the call that created
\* the object; solved counts the returned solves of a simulation.
Obj == [kind |-> "", by |-> 0, cls |-> "", name |-> None, options |-> None,
        model |-> None, pv |-> None, items |-> None, solved |-> 0, sim |-> None,
        tspan |-> None, inputs |-> None, shown |-> None, labels |-> None,
        variables |-> None]

\* What print(parameter_values) shows of "Chen2020" in the recorded output (an
\* excerpt: the entries whose values are whole numbers or strings).  The file
\* records nothing of the content of "Ai2020".
ParameterSet(name) ==
    IF name = "Chen2020"
    THEN PyDict(<<Item("Contact resistance [Ohm]", PyInt(0)),
                  Item("Current function [A]", PyFloat(5)),
                  Item("Thermodynamic factor", PyFloat(1)),
                  Item("Total heat transfer coefficient [W.m-2.K-1]", PyFloat(10)),
                  Item("citations", PyList(<<PyStr("Chen2020")>>))>>)
    ELSE PyDict(<<>>)

\* the value of a keyword argument of a call, dflt when it was not passed
KwArg(c, k, dflt) == GetOr(PyDict(c.kw), k, dflt)

ModelClass(fn) == CASE fn = "lithium_ion.SPM"  -> "SPM"
                    [] fn = "lithium_ion.SPMe" -> "SPMe"
                    [] fn = "lithium_ion.DFN"  -> "DFN"

\* The object a returning call creates.
NewObject(c) ==
    CASE c.fn \in {"lithium_ion.SPM", "lithium_ion.SPMe", "lithium_ion.DFN"} ->
           [Obj EXCEPT !.kind = "model", !.cls = ModelClass(c.fn),
                       !.name = KwArg(c, "name", None),
                       !.options = KwArg(c, "options", PyDict(<<>>))]
      [] c.fn = "ParameterValues" ->
           [Obj EXCEPT !.kind = "parameter_values", !.name = c.args[1],
                       !.items = ParameterSet(c.args[1].s)]
      [] c.fn = "Simulation" ->
           [Obj EXCEPT !.kind = "simulation", !.model = c.args[1],
                       !.pv = KwArg(c, "parameter_values", None)]
      [] c.fn = "solve" ->
           [Obj EXCEPT !.kind = "solution", !.sim = c.self, !.tspan = c.args[1],
                       !.inputs = KwArg(c, "inputs", None)]
      [] c.fn = "plot" ->
           [Obj EXCEPT !.kind = "quickplot", !.shown = PyList(<<c.self>>),
                       !.variables = IF c.args = <<>> THEN None ELSE c.args[1]]
      [] c.fn = "dynamic_plot" ->
           [Obj EXCEPT !.kind = "quickplot", !.shown = c.args[1],
                       !.labels = KwArg(c, "labels", None),
                       !.variables = KwArg(c, "output_variables", None)]

\* The heap after call c has returned: the created object is appended, and a
\* solve is counted on its simulation.
Effect(h, c) ==
    LET h1 == IF c.fn = "solve"
              THEN [h EXCEPT ![c.self.n].solved = @ + 1]
              ELSE h
    IN Append(h1, [NewObject(c) EXCEPT !.by = c.seq])

Exception(type) == Val("exception", 0, type, <<>>)
\* what a library call may raise
Exceptions == {Exception("SolverError"), Exception("ModelError")}

(***************************************************************************)
(* The kernel of each notebook.                                            *)
(***************************************************************************)
Names == {"pybamm", "model", "simulation", "models", "simulations",
          "parameter_values", "sim", "solutions", "labels", "i", "sol",
          "thermal_options", "option", "solution"}

NoLoop == [items |-> <<>>, idx |-> 0]

Init ==
    /\ cell = [nb \in Notebooks |-> 1]
    /\ pc = [nb \in Notebooks |-> 0]
    /\ status = [nb \in Notebooks |-> "running"]
    /\ env = [nb \in Notebooks |-> [x \in Names |-> Unbound]]
    /\ heap = [nb \in Notebooks |-> <<>>]
    /\ stack = [nb \in Notebooks |-> <<>>]
    /\ loop = [nb \in Notebooks |-> NoLoop]
    /\ inflight = [nb \in Notebooks |-> <<>>]
    /\ calls = [nb \in Notebooks |-> <<>>]
    /\ raised = [nb \in Notebooks |-> None]
    /\ err = [nb \in Notebooks |-> None]
    /\ out = [nb \in Notebooks |-> <<>>]
    /\ ran = [nb \in Notebooks |-> <<>>]

InNotebook(nb) == status[nb] = "running" /\ cell[nb] <= Len(Cells(nb))
CurCell(nb)  == Cells(nb)[cell[nb]]
Source(nb)   == CurCell(nb).source
CurInstr(nb) == Source(nb)[pc[nb]]

\* a kernel that never waits for a call to return
NeverWaits(nb) == TRUE

\* no library call of this kernel is in progress
Idle(nb) == inflight[nb] = <<>>

\* the kernel is about to execute a statement of kind op
At(nb, op) ==
    /\ InNotebook(nb)
    /\ CurCell(nb).cell_type = "code"
    /\ pc[nb] \in 1..Len(Source(nb))
    /\ Idle(nb)
    /\ CurInstr(nb).op = op

UsesStack(ex) == ex.e \in {"stacklist", "top"}
StackAfter(nb, ex) == IF UsesStack(ex) THEN <<>> ELSE stack[nb]

\* the names statement ins reads that are not bound
Unread(nb, ins) ==
    LET argNames == UNION {Reads(ins.args[j]) : j \in 1..Len(ins.args)}
        kwNames  == UNION {Reads(ins.kw[j][2]) : j \in 1..Len(ins.kw)}
        recvName == IF ins.recv = "" THEN {} ELSE {ins.recv}
    IN {x \in argNames \cup kwNames \cup recvName \cup Reads(ins.ex) :
            env[nb][x] = Unbound}

\* an exception caught and dropped: the run goes on
Swallowed(nb, exc) ==
    /\ status' = status
    /\ raised' = [raised EXCEPT ![nb] = exc]
    /\ err' = err

\* An exception ends the run: nothing catches it, and it is reported as raised.
Fails(nb, exc) ==
    /\ status' = [status EXCEPT ![nb] = "error"]
    /\ raised' = [raised EXCEPT ![nb] = exc]
    /\ err' = [err EXCEPT ![nb] = exc]

NameError(nb) ==
    /\ Fails(nb, Exception("NameError"))
    /\ UNCHANGED <<cell, pc, env, heap, stack, loop, inflight, calls, out, ran>>

SkipMarkdown(nb) ==
    /\ InNotebook(nb)
    /\ CurCell(nb).cell_type = "markdown"
    /\ cell' = [cell EXCEPT ![nb] = @ + 1]
    /\ UNCHANGED <<pc, status, env, heap, stack, loop, inflight, calls, raised, err, out, ran>>

BeginCell(nb) ==
    /\ InNotebook(nb)
    /\ CurCell(nb).cell_type = "code"
    /\ pc[nb] = 0
    /\ pc' = [pc EXCEPT ![nb] = 1]
    /\ ran' = [ran EXCEPT ![nb] = Append(@, cell[nb])]
    /\ UNCHANGED <<cell, status, env, heap, stack, loop, inflight, calls, raised, err, out>>

EndCell(nb) ==
    /\ InNotebook(nb)
    /\ CurCell(nb).cell_type = "code"
    /\ pc[nb] = Len(Source(nb)) + 1
    /\ Idle(nb)
    /\ cell' = [cell EXCEPT ![nb] = @ + 1]
    /\ pc' = [pc EXCEPT ![nb] = 0]
    /\ UNCHANGED <<status, env, heap, stack, loop, inflight, calls, raised, err, out, ran>>

Finish(nb) ==
    /\ status[nb] = "running"
    /\ cell[nb] = Len(Cells(nb)) + 1
    /\ status' = [status EXCEPT ![nb] = "done"]
    /\ UNCHANGED <<cell, pc, env, heap, stack, loop, inflight, calls, raised, err, out, ran>>

Import(nb) ==
    /\ At(nb, "import")
    /\ env' = [env EXCEPT ![nb][CurInstr(nb).target] = Module(CurInstr(nb).target)]
    /\ pc' = [pc EXCEPT ![nb] = @ + 1]
    /\ UNCHANGED <<cell, status, heap, stack, loop, inflight, calls, raised, err, out, ran>>

\* the call as the library receives it: the receiver and the argument values;
\* seq numbers the kernel's calls, at is the cell and statement making the call
CallOf(nb, ins) ==
    [seq  |-> Len(calls[nb]) + 1,
     at   |-> <<cell[nb], pc[nb]>>,
     fn   |-> ins.fn,
     self |-> env[nb][ins.recv],
     args |-> [j \in 1..Len(ins.args) |-> Eval(env[nb], stack[nb], ins.args[j])],
     kw   |-> [j \in 1..Len(ins.kw) |->
                  Item(ins.kw[j][1], Eval(env[nb], stack[nb], ins.kw[j][2]))]]

Call(nb) ==
    /\ At(nb, "call")
    /\ IF Unread(nb, CurInstr(nb)) # {}
       THEN NameError(nb)
       ELSE /\ inflight' = [inflight EXCEPT ![nb] = Append(@, CallOf(nb, CurInstr(nb)))]
            /\ calls' = [calls EXCEPT ![nb] = Append(@, CallOf(nb, CurInstr(nb)))]
            /\ UNCHANGED <<cell, pc, status, env, heap, stack, loop, raised, err, out, ran>>

\* The call in progress returns: its object is created, and the result is bound
\* to the target, pushed, or (an expression statement ending the cell) shown.
Return(nb) ==
    /\ status[nb] = "running"
    /\ inflight[nb] # <<>>
    /\ LET c   == Head(inflight[nb])
           ins == CurInstr(nb)
           h   == Effect(heap[nb], c)
           val == Ref(Len(h))
       IN /\ heap' = [heap EXCEPT ![nb] = h]
          /\ inflight' = [inflight EXCEPT ![nb] = Tail(@)]
          /\ env' = IF ins.target \in Names
                    THEN [env EXCEPT ![nb][ins.target] = val]
                    ELSE env
          /\ stack' = IF ins.target = "$"
                      THEN [stack EXCEPT ![nb] = Append(@, val)]
                      ELSE stack
          /\ out' = IF ins.target = "" /\ pc[nb] = Len(Source(nb))
                    THEN [out EXCEPT ![nb] = Append(@, [kind |-> "execute_result", val |-> val])]
                    ELSE out
          /\ pc' = [pc EXCEPT ![nb] = @ + 1]
    /\ UNCHANGED <<cell, status, loop, calls, raised, err, ran>>

\* The call in progress raises: the cell stops there.
Raise(nb) ==
    /\ status[nb] = "running"
    /\ inflight[nb] # <<>>
    /\ \E exc \in Exceptions : Fails(nb, exc)
    /\ inflight' = [inflight EXCEPT ![nb] = Tail(@)]
    /\ UNCHANGED <<cell, pc, env, heap, stack, loop, calls, out, ran>>

Assign(nb) ==
    /\ At(nb, "assign")
    /\ LET ins == CurInstr(nb) IN
       IF Unread(nb, ins) # {}
       THEN NameError(nb)
       ELSE /\ env' = [env EXCEPT ![nb][ins.target] = Eval(env[nb], stack[nb], ins.ex)]
            /\ stack' = [stack EXCEPT ![nb] = StackAfter(nb, ins.ex)]
            /\ pc' = [pc EXCEPT ![nb] = @ + 1]
            /\ UNCHANGED <<cell, status, heap, loop, inflight, calls, raised, err, out, ran>>

SetItem(nb) ==
    /\ At(nb, "setitem")
    /\ LET ins == CurInstr(nb) IN
       IF Unread(nb, ins) # {}
       THEN NameError(nb)
       ELSE /\ heap' = [heap EXCEPT ![nb][env[nb][ins.recv].n].items =
                           SetKey(@, ins.fn, Eval(env[nb], stack[nb], ins.ex))]
            /\ pc' = [pc EXCEPT ![nb] = @ + 1]
            /\ UNCHANGED <<cell, status, env, stack, loop, inflight, calls, raised, err, out, ran>>

ListAppend(nb) ==
    /\ At(nb, "append")
    /\ LET ins == CurInstr(nb) IN
       IF Unread(nb, ins) # {}
       THEN NameError(nb)
       ELSE /\ env' = [env EXCEPT ![nb][ins.recv] =
                          PyList(Append(@.l, Eval(env[nb], stack[nb], ins.ex)))]
            /\ stack' = [stack EXCEPT ![nb] = StackAfter(nb, ins.ex)]
            /\ pc' = [pc EXCEPT ![nb] = @ + 1]
            /\ UNCHANGED <<cell, status, heap, loop, inflight, calls, raised, err, out, ran>>

GetIter(nb) ==
    /\ At(nb, "GET_ITER")
    /\ LET ins == CurInstr(nb) IN
       IF Unread(nb, ins) # {}
       THEN NameError(nb)
       ELSE /\ loop' = [loop EXCEPT ![nb] =
                           [items |-> Eval(env[nb], stack[nb], ins.ex).l, idx |-> 0]]
            /\ pc' = [pc EXCEPT ![nb] = @ + 1]
            /\ UNCHANGED <<cell, status, env, heap, stack, inflight, calls, raised, err, out, ran>>

ForIter(nb) ==
    /\ At(nb, "FOR_ITER")
    /\ LET ins == CurInstr(nb)
           it  == loop[nb]
       IN IF it.idx < Len(it.items)
          THEN /\ env' = [env EXCEPT ![nb][ins.target] = it.items[it.idx + 1]]
               /\ loop' = [loop EXCEPT ![nb].idx = @ + 1]
               /\ pc' = [pc EXCEPT ![nb] = @ + 1]
          ELSE /\ env' = env
               /\ loop' = [loop EXCEPT ![nb] = NoLoop]
               /\ pc' = [pc EXCEPT ![nb] = ins.jump]
    /\ UNCHANGED <<cell, status, heap, stack, inflight, calls, raised, err, out, ran>>

JumpBackward(nb) ==
    /\ At(nb, "JUMP_BACKWARD")
    /\ pc' = [pc EXCEPT ![nb] = CurInstr(nb).jump]
    /\ UNCHANGED <<cell, status, env, heap, stack, loop, inflight, calls, raised, err, out, ran>>

\* what print shows of a value: of a parameter container, its items
Shown(h, v) == IF v.t = "ref" /\ h[v.n].kind = "parameter_values" THEN h[v.n].items ELSE v

Stdout(nb) ==
    /\ At(nb, "print")
    /\ LET ins == CurInstr(nb) IN
       IF Unread(nb, ins) # {}
       THEN NameError(nb)
       ELSE /\ out' = [out EXCEPT ![nb] = Append(@,
                          [kind |-> "stdout",
                           val  |-> Shown(heap[nb], Eval(env[nb], stack[nb], ins.ex))])]
            /\ pc' = [pc EXCEPT ![nb] = @ + 1]
            /\ UNCHANGED <<cell, status, env, heap, stack, loop, inflight, calls, raised, err, ran>>

ExprStmt(nb) ==
    /\ At(nb, "expr")
    /\ LET ins == CurInstr(nb) IN
       IF Unread(nb, ins) # {}
       THEN NameError(nb)
       ELSE /\ out' = [out EXCEPT ![nb] = Append(@,
                          [kind |-> "execute_result",
                           val  |-> Eval(env[nb], stack[nb], ins.ex)])]
            /\ pc' = [pc EXCEPT ![nb] = @ + 1]
            /\ UNCHANGED <<cell, status, env, heap, stack, loop, inflight, calls, raised, err, ran>>

Next ==
    \E nb \in Notebooks :
        \/ SkipMarkdown(nb)
        \/ BeginCell(nb)
        \/ EndCell(nb)
        \/ Finish(nb)
        \/ Import(nb)
        \/ Call(nb)
        \/ Return(nb)
        \/ Raise(nb)
        \/ Assign(nb)
        \/ SetItem(nb)
        \/ ListAppend(nb)
        \/ GetIter(nb)
        \/ ForIter(nb)
        \/ JumpBackward(nb)
        \/ Stdout(nb)
        \/ ExprStmt(nb)

Spec == Init /\ [][Next]_vars

(***************************************************************************)
(* A run that is not top to bottom: once the sweep cell has finished, the  *)
(* parameter-update cell is run again, and the run goes on from there.     *)
(***************************************************************************)
\* how many times the parameter-update cell may be run again
MaxReruns == 1

TimesRun(nb, c) == Cardinality({j \in 1..Len(ran[nb]) : ran[nb][j] = c})

Rerun(nb) ==
    /\ status[nb] = "running"
    /\ cell[nb] = SweepCell + 1
    /\ pc[nb] = 0
    /\ TimesRun(nb, UpdateCell) <= MaxReruns
    /\ cell' = [cell EXCEPT ![nb] = UpdateCell]
    /\ UNCHANGED <<pc, status, env, heap, stack, loop, inflight, calls, raised, err, out, ran>>

NextRerun == Next \/ \E nb \in Notebooks : Rerun(nb)

SpecRerun == Init /\ [][NextRerun]_vars

(***************************************************************************)
(* A run in which every library call returns.  The kernel of a notebook    *)
(* runs the next statement whenever there is one, and a call in flight     *)
(* comes back.                                                             *)
(***************************************************************************)
Step(nb) ==
    \/ SkipMarkdown(nb)
    \/ BeginCell(nb)
    \/ EndCell(nb)
    \/ Finish(nb)
    \/ Import(nb)
    \/ Call(nb)
    \/ Return(nb)
    \/ Assign(nb)
    \/ SetItem(nb)
    \/ ListAppend(nb)
    \/ GetIter(nb)
    \/ ForIter(nb)
    \/ JumpBackward(nb)
    \/ Stdout(nb)
    \/ ExprStmt(nb)

NextReturns == \E nb \in Notebooks : Step(nb)

SpecReturns == Init /\ [][NextReturns]_vars /\ \A nb \in Notebooks : WF_vars(Step(nb))
(***************************************************************************)
(* Properties of the runs.                                                 *)
(***************************************************************************)
IsA(nb, v, kind) ==
    /\ v.t = "ref"
    /\ v.n \in 1..Len(heap[nb])
    /\ heap[nb][v.n].kind = kind

ModelCalls == {"lithium_ion.SPM", "lithium_ion.SPMe", "lithium_ion.DFN"}
PlotCalls  == {"plot", "dynamic_plot"}

\* what a plotting call displays
Displayed(c) == IF c.fn = "dynamic_plot" THEN c.args[1].l ELSE <<c.self>>

\* a solve of simulation v whose solution was created before call number k
SolvedBefore(nb, v, k) ==
    \E j \in 1..Len(heap[nb]) :
        /\ heap[nb][j].kind = "solution"
        /\ heap[nb][j].sim = v
        /\ heap[nb][j].by < k

\* C1: every Simulation is constructed from a model an earlier call created,
\* every solve is called on a Simulation an earlier call created, and every
\* plotting call displays only simulations whose solve returned before it and
\* solutions that a solve returned before it.
C1_CallOrder ==
    \A nb \in Notebooks : \A k \in 1..Len(calls[nb]) :
        LET c == calls[nb][k] IN
        /\ c.fn = "Simulation" =>
              /\ Len(c.args) = 1
              /\ IsA(nb, c.args[1], "model")
              /\ heap[nb][c.args[1].n].by < k
        /\ c.fn = "solve" =>
              /\ IsA(nb, c.self, "simulation")
              /\ heap[nb][c.self.n].by < k
        /\ c.fn \in PlotCalls =>
              /\ Displayed(c) # <<>>
              /\ \A j \in 1..Len(Displayed(c)) :
                    LET d == Displayed(c)[j] IN
                    \/ IsA(nb, d, "simulation") /\ SolvedBefore(nb, d, k)
                    \/ IsA(nb, d, "solution") /\ heap[nb][d.n].by < k

\* a run has made a plotting call of each of the three kinds
C1_Witness ==
    \E nb \in Notebooks :
        /\ \E k \in 1..Len(calls[nb]) :
              calls[nb][k].fn = "plot" /\ IsA(nb, calls[nb][k].self, "simulation")
        /\ \E k \in 1..Len(calls[nb]) :
              calls[nb][k].fn = "plot" /\ IsA(nb, calls[nb][k].self, "solution")
        /\ \E k \in 1..Len(calls[nb]) :
              calls[nb][k].fn = "dynamic_plot" /\ Len(calls[nb][k].args[1].l) = 3

\* a call as the library sees it, without the place it was made from
Issued(c) == [fn |-> c.fn, self |-> c.self, args |-> c.args, kw |-> c.kw]
Min(a, b) == IF a < b THEN a ELSE b
Bindings == {"model", "simulation", "sim", "parameter_values", "solutions", "labels"}

\* C2: the two notebooks issue the same sequence of library calls with the same
\* arguments (as far as both have run), and when both runs are done they have
\* created the same objects and reached the same bindings; cell by cell, as far
\* as the shorter notebook goes, they have the same kind of cell with the same
\* statements.
C2_SameCalls ==
    LET a == "pybamm.ipynb"
        b == "part_000"
    IN /\ \A j \in 1..Min(Len(Cells(a)), Len(Cells(b))) :
              /\ Cells(a)[j].cell_type = Cells(b)[j].cell_type
              /\ Cells(a)[j].source = Cells(b)[j].source
       /\ \A j \in 1..Len(Cells(a)) \cup 1..Len(Cells(b)) :
              j > Min(Len(Cells(a)), Len(Cells(b))) =>
                  Cells(IF j > Len(Cells(a)) THEN b ELSE a)[j].cell_type = "markdown"
       /\ \A k \in 1..Min(Len(calls[a]), Len(calls[b])) :
              Issued(calls[a][k]) = Issued(calls[b][k])
       /\ status[a] = "done" /\ status[b] = "done" =>
              /\ Len(calls[a]) = Len(calls[b])
              /\ heap[a] = heap[b]
              /\ \A x \in Bindings : env[a][x] = env[b][x] /\ env[a][x] # Unbound

C2_Witness ==
    /\ status["pybamm.ipynb"] = "done"
    /\ status["part_000"] = "done"
    /\ Len(calls["part_000"]) > 0

\* C3: every solve call is made with the time span [0, 3600] as its only
\* positional argument.
C3_TimeSpan ==
    \A nb \in Notebooks : \A k \in 1..Len(calls[nb]) :
        calls[nb][k].fn = "solve" =>
            calls[nb][k].args = <<PyList(<<PyInt(0), PyInt(3600)>>)>>

\* both runs have made a solve inside each of the three loops and the last solve
C3_Witness ==
    \A nb \in Notebooks :
        /\ status[nb] = "done"
        /\ Cardinality({k \in 1..Len(calls[nb]) : calls[nb][k].fn = "solve"}) > 9
\* the numbers of the calls made from cell c whose function is in fns
CallsAt(nb, c, fns) ==
    {k \in 1..Len(calls[nb]) : calls[nb][k].at[1] = c /\ calls[nb][k].fn \in fns}
\* cell c has been run to its end
Finished(nb, c) == status[nb] # "error" /\ cell[nb] > c
CurrentKey == "Current function [A]"

\* C4: the sweep cell constructs the SPM model and the Simulation once, before
\* its first solve; its solves are all on that Simulation, the k-th of them
\* with input "Current function [A]" = k; a finished sweep has made four.
C4_SweepReuse ==
    \A nb \in Notebooks :
        LET ms == CallsAt(nb, SweepCell, ModelCalls)
            ss == CallsAt(nb, SweepCell, {"Simulation"})
            vs == CallsAt(nb, SweepCell, {"solve"})
        IN /\ Cardinality(ms) <= 1
           /\ Cardinality(ss) <= 1
           /\ \A m \in ms : calls[nb][m].fn = "lithium_ion.SPM"
           /\ \A k \in vs :
                 LET c == calls[nb][k]
                     n == Cardinality({j \in vs : j <= k})
                 IN /\ \A j \in ms \cup ss : j < k
                    /\ IsA(nb, c.self, "simulation")
                    /\ heap[nb][c.self.n].by \in ss
                    /\ heap[nb][heap[nb][c.self.n].model.n].by \in ms
                    /\ c.kw = <<Item("inputs", PyDict(<<Item(CurrentKey, PyInt(n))>>))>>
           /\ Cardinality(vs) <= 4
           /\ Finished(nb, SweepCell) =>
                 Cardinality(ms) = 1 /\ Cardinality(ss) = 1 /\ Cardinality(vs) = 4

C4_Witness ==
    \E nb \in Notebooks :
        /\ Finished(nb, SweepCell)
        /\ Cardinality(CallsAt(nb, SweepCell, {"solve"})) = 4

\* the kernel stands at the head of the loop of cell c, between two iterations
AtLoopHead(nb, c) ==
    /\ status[nb] = "running"
    /\ cell[nb] = c
    /\ pc[nb] \in 1..Len(Source(nb))
    /\ inflight[nb] = <<>>
    /\ CurInstr(nb).op = "FOR_ITER"

\* C5: at every iteration boundary of the sweep loop solutions and labels have
\* the same length; the dynamic_plot of the sweep is called with four solutions
\* and four labels, and the k-th label is "Current = i [A]" for the input i of
\* the solve that returned the k-th solution.
C5_LabelsMatch ==
    \A nb \in Notebooks :
        /\ AtLoopHead(nb, SweepCell) =>
              /\ env[nb]["solutions"].t = "list"
              /\ env[nb]["labels"].t = "list"
              /\ Len(env[nb]["solutions"].l) = Len(env[nb]["labels"].l)
              /\ Len(env[nb]["solutions"].l) = loop[nb].idx
        /\ \A k \in CallsAt(nb, SweepCell, {"dynamic_plot"}) :
              LET c    == calls[nb][k]
                  sols == c.args[1].l
                  labs == KwArg(c, "labels", None).l
              IN /\ Len(sols) = 4
                 /\ Len(labs) = 4
                 /\ \A j \in 1..4 :
                       /\ IsA(nb, sols[j], "solution")
                       /\ labs[j] = PyStr("Current = "
                             \o ToString(Get(heap[nb][sols[j].n].inputs, CurrentKey).n)
                             \o " [A]")

C5_Witness ==
    \E nb \in Notebooks :
        /\ CallsAt(nb, SweepCell, {"dynamic_plot"}) # {}
        /\ env[nb]["labels"].l[3] = PyStr("Current = 3 [A]")

Distinct(l) == \A j, k \in 1..Len(l) : j # k => l[j] # l[k]

\* C6: the comparison cell calls dynamic_plot at most once, once when it has
\* finished, from the statement after the loop and with the loop exhausted; its
\* argument is a list of three distinct Simulations whose models are the SPM,
\* the SPMe and the DFN in this order; every Simulation in simulations has been
\* solved exactly once, by a solve that returned before it was appended.
C6_CompareThree ==
    \A nb \in Notebooks :
        LET ps == CallsAt(nb, CompareCell, {"dynamic_plot"}) IN
        /\ Cardinality(ps) <= 1
        /\ Finished(nb, CompareCell) => Cardinality(ps) = 1
        /\ \A k \in ps :
              LET c    == calls[nb][k]
                  sims == c.args[1].l
              IN /\ c.at[2] = Len(Cells(nb)[CompareCell].source)
                 /\ \A j \in CallsAt(nb, CompareCell, {"solve", "Simulation"}) : j < k
                 /\ Len(sims) = 3
                 /\ Distinct(sims)
                 /\ \A j \in 1..3 : IsA(nb, sims[j], "simulation")
                 /\ [j \in 1..3 |-> heap[nb][heap[nb][sims[j].n].model.n].cls]
                       = <<"SPM", "SPMe", "DFN">>
                 /\ \A j \in 1..3 :
                       Cardinality({v \in 1..Len(calls[nb]) :
                           calls[nb][v].fn = "solve" /\ calls[nb][v].self = sims[j]}) = 1
        /\ inflight[nb] # <<>> /\ Head(inflight[nb]).fn = "dynamic_plot"
              /\ cell[nb] = CompareCell => loop[nb] = NoLoop
        /\ cell[nb] >= CompareCell /\ env[nb]["simulations"].t = "list" =>
              \A j \in 1..Len(env[nb]["simulations"].l) :
                  LET v == env[nb]["simulations"].l[j] IN
                  /\ IsA(nb, v, "simulation")
                  /\ heap[nb][v.n].solved = 1

C6_Witness ==
    \E nb \in Notebooks :
        /\ cell[nb] = CompareCell
        /\ inflight[nb] # <<>>
        /\ Head(inflight[nb]).fn = "dynamic_plot"
        /\ Len(Head(inflight[nb]).args[1].l) = 3
\* the part of the state that belongs to the kernel of nb
Kernel(nb) == <<cell[nb], pc[nb], status[nb], env[nb], heap[nb], stack[nb], loop[nb],
                inflight[nb], calls[nb], raised[nb], err[nb], out[nb], ran[nb]>>

ListLen(nb, x) == IF env[nb][x].t = "list" THEN Len(env[nb][x].l) ELSE 0 - 1

\* the state a raising call leaves: the kernel stands at the statement that made
\* the call, which is the last call made; inside a loop the lists hold the
\* results of the completed iterations only, and the plot after the loop has not
\* been called
StoppedAtCall(nb) ==
    /\ err[nb] = raised[nb]
    /\ err[nb] \in Exceptions
    /\ inflight[nb] = <<>>
    /\ calls[nb] # <<>>
    /\ calls[nb][Len(calls[nb])].at = <<cell[nb], pc[nb]>>
    /\ CurInstr(nb).op = "call"
    /\ loop[nb] # NoLoop =>
          /\ CallsAt(nb, cell[nb], {"dynamic_plot"}) = {}
          /\ cell[nb] = CompareCell => ListLen(nb, "simulations") = loop[nb].idx - 1
          /\ cell[nb] = SweepCell =>
                /\ ListLen(nb, "solutions") = loop[nb].idx - 1
                /\ ListLen(nb, "labels") = loop[nb].idx - 1
          /\ cell[nb] = ThermalCell => ListLen(nb, "solutions") = loop[nb].idx - 1

\* C7: a library call that raises ends the run with the exception as raised; the
\* kernel then stands at the failing statement with the lists holding the
\* results of the completed iterations only, and it takes no further step.
C7_ErrorsPropagate ==
    [][\A nb \in Notebooks :
          /\ (raised'[nb] # None) <=> (status'[nb] = "error")
          /\ status'[nb] = "error" => StoppedAtCall(nb)'
          /\ status[nb] = "error" => Kernel(nb)' = Kernel(nb)]_vars

\* the solve of the second model of the comparison has raised
C7_Witness ==
    \E nb \in Notebooks :
        /\ status[nb] = "error"
        /\ cell[nb] = CompareCell
        /\ calls[nb][Len(calls[nb])].fn = "solve"
        /\ loop[nb].idx = 2
        /\ Len(env[nb]["simulations"].l) = 1

\* C8: a kernel has at most one library call in progress; it moves to another
\* statement or cell only with no call in progress, and to the next cell only
\* from the end of the current one.
C8_Sequential ==
    [][\A nb \in Notebooks :
          /\ Len(inflight'[nb]) <= 1
          /\ Len(inflight[nb]) <= 1
          /\ pc'[nb] # pc[nb] \/ cell'[nb] # cell[nb] => inflight'[nb] = <<>>
          /\ Len(inflight'[nb]) > Len(inflight[nb]) => inflight[nb] = <<>>
          /\ cell'[nb] # cell[nb] =>
                /\ cell'[nb] = cell[nb] + 1
                /\ inflight[nb] = <<>>
                /\ \/ CurCell(nb).cell_type = "markdown"
                   \/ pc[nb] = Len(Source(nb)) + 1]_vars

\* a solve of the thermal loop is in progress
C8_Witness ==
    \E nb \in Notebooks :
        /\ cell[nb] = ThermalCell
        /\ Len(inflight[nb]) = 1
        /\ Head(inflight[nb]).fn = "solve"
        /\ loop[nb].idx = 2

Quantities == <<"surface radial stress [Pa]", "surface tangential stress [Pa]",
                "surface displacement [m]", "crack length [m]">>
\* the four quantities of the particle of one electrode
ParticleVariables(electrode) ==
    [j \in 1..4 |-> PyStr(electrode \o " particle " \o Quantities[j])]

\* C9: the particle-mechanics cell constructs one model, a DFN whose "particle
\* mechanics" option is ("swelling only", "swelling and cracking"), and one
\* Simulation of it with the "Ai2020" parameters, solves it once and calls plot
\* once, on the solution of that solve, with the four quantities of the negative
\* and then of the positive particle.
C9_Mechanics ==
    \A nb \in Notebooks :
        LET ms == CallsAt(nb, MechanicsCell, ModelCalls)
            vs == CallsAt(nb, MechanicsCell, {"solve"})
            ps == CallsAt(nb, MechanicsCell, PlotCalls)
        IN /\ Cardinality(ms) <= 1 /\ Cardinality(vs) <= 1 /\ Cardinality(ps) <= 1
           /\ Finished(nb, MechanicsCell) =>
                 Cardinality(ms) = 1 /\ Cardinality(vs) = 1 /\ Cardinality(ps) = 1
           /\ \A k \in ps :
                 LET c == calls[nb][k] IN
                 /\ c.fn = "plot"
                 /\ IsA(nb, c.self, "solution")
                 /\ heap[nb][c.self.n].by \in vs
                 /\ LET sim == heap[nb][heap[nb][c.self.n].sim.n]
                        m   == heap[nb][sim.model.n]
                        mech == Get(m.options, "particle mechanics")
                    IN /\ sim.solved = 1
                       /\ m.by \in ms
                       /\ m.cls = "DFN"
                       /\ Len(m.options.l) = 1
                       /\ mech.t = "tuple"
                       /\ mech.l = <<PyStr("swelling only"), PyStr("swelling and cracking")>>
                       /\ IsA(nb, sim.pv, "parameter_values")
                       /\ heap[nb][sim.pv.n].name = PyStr("Ai2020")
                 /\ Len(c.args) = 1
                 /\ c.args[1].l = ParticleVariables("Negative") \o ParticleVariables("Positive")
                 /\ Distinct(c.args[1].l)

C9_Witness ==
    \E nb \in Notebooks :
        /\ Finished(nb, MechanicsCell)
        /\ CallsAt(nb, MechanicsCell, {"plot"}) # {}

RecordedCount(nb, c) == Cells(nb)[c].execution_count

\* C10: every code cell a top-to-bottom run goes through carries a recorded
\* execution count, and the recorded counts strictly increase in document order.
C10_AllCounted ==
    \A nb \in Notebooks : \A j \in 1..Len(ran[nb]) :
        /\ RecordedCount(nb, ran[nb][j]).t = "int"
        /\ j > 1 => RecordedCount(nb, ran[nb][j - 1]).n < RecordedCount(nb, ran[nb][j]).n
\* the parameter container a Simulation call was given, None when it was given none
GivenParameters(c) == KwArg(c, "parameter_values", None)

\* container items d is the parameter set of name with the value of key changed
\* to v and nothing else changed
OnlyChanged(d, name, key, v) ==
    /\ Len(d.l) = Len(ParameterSet(name).l)
    /\ \A j \in 1..Len(d.l) :
          IF d.l[j].s = key
          THEN d.l[j] = Item(key, v) /\ ParameterSet(name).l[j].s = key
          ELSE d.l[j] = ParameterSet(name).l[j]

\* C11: the Simulation of the parameter-update cell is constructed from, and its
\* solve runs on, a "Chen2020" container that already holds "Current function
\* [A]" = 2.0 and otherwise the entries the constructor gave it; the value
\* printed before the update was 5.0.
C11_OverrideFirst ==
    \A nb \in Notebooks :
        /\ \A k \in CallsAt(nb, UpdateCell, {"Simulation"}) :
              LET pv == GivenParameters(calls[nb][k]) IN
              /\ IsA(nb, pv, "parameter_values")
              /\ heap[nb][pv.n].name = PyStr("Chen2020")
              /\ OnlyChanged(heap[nb][pv.n].items, "Chen2020", CurrentKey, PyFloat(2))
              /\ \E j \in 1..Len(out[nb]) :
                    /\ out[nb][j].kind = "stdout"
                    /\ Get(out[nb][j].val, CurrentKey) = PyFloat(5)
        /\ \A k \in CallsAt(nb, UpdateCell, {"solve"}) :
              LET sim == heap[nb][calls[nb][k].self.n] IN
              /\ sim.by \in CallsAt(nb, UpdateCell, {"Simulation"})
              /\ Get(heap[nb][sim.pv.n].items, CurrentKey) = PyFloat(2)
        /\ Finished(nb, UpdateCell) =>
              /\ Cardinality(CallsAt(nb, UpdateCell, {"Simulation"})) = 1
              /\ Cardinality(CallsAt(nb, UpdateCell, {"solve"})) = 1

\* the solve of the parameter-update cell is in progress
C11_Witness ==
    \E nb \in Notebooks :
        /\ cell[nb] = UpdateCell
        /\ inflight[nb] # <<>>
        /\ Head(inflight[nb]).fn = "solve"
Last(S) == CHOOSE k \in S : \A j \in S : j <= k

\* C12: the Simulation of the parameter-update cell is given the model bound to
\* the name model when the cell runs: in document order the DFN that the last
\* model call of the comparison cell created (the model of the last Simulation
\* of its loop), and, when the cell is run after the sweep cell, the SPM of the
\* sweep.
C12_WhichModel ==
    \A nb \in Notebooks : \A k \in CallsAt(nb, UpdateCell, {"Simulation"}) :
        LET m       == calls[nb][k].args[1]
            sweeps  == {j \in CallsAt(nb, SweepCell, ModelCalls) : j < k}
            compare == CallsAt(nb, CompareCell, ModelCalls)
        IN /\ IsA(nb, m, "model")
           /\ IF sweeps = {}
              THEN /\ heap[nb][m.n].cls = "DFN"
                   /\ Cardinality(compare) = 3
                   /\ heap[nb][m.n].by = Last(compare)
                   /\ heap[nb][env[nb]["simulations"].l[3].n].model = m
              ELSE /\ heap[nb][m.n].cls = "SPM"
                   /\ heap[nb][m.n].by = Last(sweeps)

\* the parameter-update cell has been run in document order and again after the
\* sweep, and has constructed a Simulation both times
C12_Witness ==
    \E nb \in Notebooks :
        /\ Cardinality(CallsAt(nb, UpdateCell, {"Simulation"})) = 2
        /\ TimesRun(nb, SweepCell) = 1

\* the parameter containers created by the ParameterValues calls of cell c
Containers(nb, c) ==
    {j \in 1..Len(heap[nb]) : /\ heap[nb][j].kind = "parameter_values"
                              /\ heap[nb][j].by \in CallsAt(nb, c, {"ParameterValues"})}

\* C13: the Simulation of the sweep cell is constructed with a "Chen2020"
\* container that a ParameterValues call of the sweep cell created, holding
\* "Current function [A]" = "[input]" and otherwise the constructor's entries,
\* while the container of the update cell still holds 2.0; every solve on that
\* Simulation passes inputs with the key "Current function [A]", and a solve on
\* any other Simulation passes no inputs.
C13_FreshInput ==
    \A nb \in Notebooks :
        /\ \A k \in CallsAt(nb, SweepCell, {"Simulation"}) :
              LET pv == GivenParameters(calls[nb][k]) IN
              /\ IsA(nb, pv, "parameter_values")
              /\ pv.n \in Containers(nb, SweepCell)
              /\ heap[nb][pv.n].name = PyStr("Chen2020")
              /\ OnlyChanged(heap[nb][pv.n].items, "Chen2020", CurrentKey, PyStr("[input]"))
              /\ \A j \in CallsAt(nb, UpdateCell, {"Simulation"}) :
                    LET old == GivenParameters(calls[nb][j]) IN
                    /\ old # pv
                    /\ Get(heap[nb][old.n].items, CurrentKey) = PyFloat(2)
        /\ \A k \in 1..Len(calls[nb]) :
              LET c == calls[nb][k] IN
              c.fn = "solve" =>
                 IF heap[nb][c.self.n].by \in CallsAt(nb, SweepCell, {"Simulation"})
                 THEN /\ KwArg(c, "inputs", None).t = "dict"
                      /\ HasKey(KwArg(c, "inputs", None), CurrentKey)
                 ELSE c.kw = <<>>
C13_Witness ==
    \E nb \in Notebooks :
        /\ Cardinality(CallsAt(nb, SweepCell, {"solve"})) = 4
        /\ CallsAt(nb, ThermalCell, {"solve"}) # {}
        /\ CallsAt(nb, UpdateCell, {"solve"}) # {}

\* the step of nb's kernel that runs the statement of the submodels cell
ShowsSubmodels(nb) ==
    /\ cell[nb] = SubmodelsCell
    /\ At(nb, "expr")
    /\ pc'[nb] = pc[nb] + 1
    /\ status'[nb] = "running"

\* C14: the statement of the submodels cell displays the submodels attribute of
\* the SPM model that the sweep cell created and on which the sweep's
\* Simulation, solved four times, was built; the step changes no binding and no
\* object, and the cell makes no library call at all.
C14_ReadsSweepModel ==
    [][\A nb \in Notebooks :
          /\ CallsAt(nb, SubmodelsCell, ModelCalls \cup PlotCalls \cup
                         {"solve", "Simulation", "ParameterValues"})' = {}
          /\ ShowsSubmodels(nb) =>
                LET shown == out'[nb][Len(out'[nb])]
                    m     == env[nb]["model"]
                IN /\ env'[nb] = env[nb]
                   /\ heap'[nb] = heap[nb]
                   /\ calls'[nb] = calls[nb]
                   /\ inflight'[nb] = <<>>
                   /\ Len(out'[nb]) = Len(out[nb]) + 1
                   /\ shown = [kind |-> "execute_result",
                               val  |-> Val("attr", m.n, "submodels", <<>>)]
                   /\ IsA(nb, m, "model")
                   /\ heap[nb][m.n].cls = "SPM"
                   /\ heap[nb][m.n].by \in CallsAt(nb, SweepCell, ModelCalls)
                   /\ \E j \in 1..Len(heap[nb]) :
                         /\ heap[nb][j].kind = "simulation"
                         /\ heap[nb][j].by \in CallsAt(nb, SweepCell, {"Simulation"})
                         /\ heap[nb][j].model = m
                         /\ heap[nb][j].solved = 4]_vars
C14_Witness ==
    \E nb \in Notebooks :
        /\ cell[nb] = SubmodelsCell
        /\ pc[nb] = 2
        /\ status[nb] = "running"
        /\ out[nb][Len(out[nb])].val.t = "attr"

ThermalOptions == <<"isothermal", "x-full">>

\* C15: the dynamic_plot call of the thermal cell receives exactly two
\* solutions, the isothermal one and then the x-full one: each comes from the
\* one solve of a Simulation the thermal cell built, with the model alone, on a
\* DFN the thermal cell created with its option as name and as "thermal"
\* option; the call is given nine different output variables, the last of them
\* "Cell temperature [K]".
C15_ThermalPlot ==
    \A nb \in Notebooks : \A k \in CallsAt(nb, ThermalCell, {"dynamic_plot"}) :
        LET c    == calls[nb][k]
            sols == c.args[1]
            vs   == KwArg(c, "output_variables", None)
            sim(j) == heap[nb][sols.l[j].n].sim
        IN /\ sols.t = "list"
           /\ Len(sols.l) = 2
           /\ \A j \in 1..2 :
                 /\ IsA(nb, sols.l[j], "solution")
                 /\ heap[nb][sols.l[j].n].by \in CallsAt(nb, ThermalCell, {"solve"})
                 /\ IsA(nb, sim(j), "simulation")
                 /\ heap[nb][sim(j).n].by \in CallsAt(nb, ThermalCell, {"Simulation"})
                 /\ heap[nb][sim(j).n].solved = 1
                 /\ heap[nb][sim(j).n].pv = None
                 /\ LET m == heap[nb][sim(j).n].model IN
                    /\ IsA(nb, m, "model")
                    /\ heap[nb][m.n].by \in CallsAt(nb, ThermalCell, ModelCalls)
                    /\ heap[nb][m.n].cls = "DFN"
                    /\ heap[nb][m.n].name = PyStr(ThermalOptions[j])
                    /\ heap[nb][m.n].options =
                          PyDict(<<Item("thermal", PyStr(ThermalOptions[j]))>>)
           /\ sim(1) # sim(2)
           /\ heap[nb][sim(1).n].model # heap[nb][sim(2).n].model
           /\ vs.t = "list"
           /\ Len(vs.l) = 9
           /\ Distinct(vs.l)
           /\ vs.l[9] = PyStr("Cell temperature [K]")
           /\ Cardinality(CallsAt(nb, ThermalCell, {"solve"})) = 2
C15_Witness ==
    \E nb \in Notebooks :
        /\ CallsAt(nb, ThermalCell, {"dynamic_plot"}) # {}
        /\ Finished(nb, ThermalCell)
        /\ Cardinality(CallsAt(nb, SweepCell, {"solve"})) = 4

\* what the container given to Simulation call c holds: its set and its value
\* of "Current function [A]" (None where the set has no such entry recorded)
Given(nb, c) ==
    LET pv == heap[nb][GivenParameters(c).n]
    IN <<pv.name, GetOr(pv.items, CurrentKey, None)>>

\* C16: a Simulation call passes parameter_values exactly when it is made by
\* the update cell ("Chen2020" with 2.0), the sweep cell ("Chen2020" with
\* "[input]") or the mechanics cell ("Ai2020"), each of which makes one such
\* call, so a finished run has made three; every other Simulation call (the
\* first run, the comparison loop, the thermal loop) passes the model alone.
C16_WhoPassesParameters ==
    \A nb \in Notebooks :
        /\ \A k \in 1..Len(calls[nb]) :
              LET c == calls[nb][k] IN
              c.fn = "Simulation" =>
                 /\ Len(c.args) = 1
                 /\ IF c.at[1] \in {UpdateCell, SweepCell, MechanicsCell}
                    THEN /\ Len(c.kw) = 1
                         /\ IsA(nb, GivenParameters(c), "parameter_values")
                         /\ Given(nb, c) =
                               CASE c.at[1] = UpdateCell -> <<PyStr("Chen2020"), PyFloat(2)>>
                                 [] c.at[1] = SweepCell  -> <<PyStr("Chen2020"), PyStr("[input]")>>
                                 [] OTHER                -> <<PyStr("Ai2020"), None>>
                    ELSE /\ c.kw = <<>>
                         /\ c.at[1] \in {6, CompareCell, ThermalCell}
        /\ \A x \in {UpdateCell, SweepCell, MechanicsCell} :
              /\ Cardinality(CallsAt(nb, x, {"Simulation"})) <= 1
              /\ Finished(nb, x) => Cardinality(CallsAt(nb, x, {"Simulation"})) = 1
        /\ status[nb] = "done" =>
              /\ Cardinality({k \in 1..Len(calls[nb]) :
                                 /\ calls[nb][k].fn = "Simulation"
                                 /\ calls[nb][k].kw # <<>>}) = 3
              /\ Cardinality({j \in 1..Len(heap[nb]) :
                                 /\ heap[nb][j].kind = "simulation"
                                 /\ heap[nb][j].pv = None}) = 1 + 3 + 2
C16_Witness ==
    \E nb \in Notebooks :
        /\ status[nb] = "done"
        /\ Cardinality(CallsAt(nb, MechanicsCell, {"Simulation"})) = 1

CountOf(nb, fns) == Cardinality({k \in 1..Len(calls[nb]) : calls[nb][k].fn \in fns})
\* the plot calls made on an object of the given kind
PlotsOf(nb, kind) ==
    {k \in 1..Len(calls[nb]) : /\ calls[nb][k].fn = "plot"
                               /\ IsA(nb, calls[nb][k].self, kind)}

\* the run of nb has ended without an error, after three, four and two
\* iterations of its loops, twelve solves and five plotting calls
Completed(nb) ==
    /\ status[nb] = "done"
    /\ err[nb] = None
    /\ inflight[nb] = <<>>
    /\ Cardinality(CallsAt(nb, CompareCell, {"solve"})) = 3
    /\ Cardinality(CallsAt(nb, CompareCell, {"Simulation"})) = 3
    /\ Cardinality(CallsAt(nb, SweepCell, {"solve"})) = 4
    /\ Cardinality(CallsAt(nb, ThermalCell, {"solve"})) = 2
    /\ Cardinality(CallsAt(nb, ThermalCell, {"Simulation"})) = 2
    /\ Cardinality(CallsAt(nb, UpdateCell, {"solve"})) = 1
    /\ Cardinality(CallsAt(nb, MechanicsCell, {"solve"})) = 1
    /\ CountOf(nb, {"solve"}) = 12
    /\ CountOf(nb, PlotCalls) = 5
    /\ CountOf(nb, {"dynamic_plot"}) = 3
    /\ Cardinality(PlotsOf(nb, "simulation")) = 1
    /\ Cardinality(PlotsOf(nb, "solution")) = 1
    /\ Cardinality({j \in 1..Len(heap[nb]) : heap[nb][j].kind = "solution"}) = 12
    /\ Cardinality({j \in 1..Len(heap[nb]) : heap[nb][j].kind = "quickplot"}) = 5

\* C17: when every library call returns, the run of each notebook comes to its
\* end and stays there, having run its loops three, four and two times and made
\* twelve solves (1 + 3 + 1 + 4 + 2 + 1) and five plotting calls (one
\* simulation.plot, three dynamic_plot, one solution.plot).
C17_Terminates == <>[](\A nb \in Notebooks : Completed(nb))
C17_Witness ==
    \A nb \in Notebooks :
        /\ status[nb] = "done"
        /\ CountOf(nb, {"solve"}) = 12
        /\ CountOf(nb, PlotCalls) = 5

\* the kernel of nb is about to execute a statement
AtStatement(nb) ==
    /\ InNotebook(nb)
    /\ CurCell(nb).cell_type = "code"
    /\ pc[nb] \in 1..Len(Source(nb))
    /\ Idle(nb)

\* C18: in a top-to-bottom run every name that the statement about to be
\* executed reads is bound, a statement that takes the result of a nested call
\* finds it, and no NameError is ever raised.
C18_NamesBound ==
    \A nb \in Notebooks :
        /\ raised[nb] # Exception("NameError")
        /\ err[nb] # Exception("NameError")
        /\ AtStatement(nb) =>
              /\ Unread(nb, CurInstr(nb)) = {}
              /\ UsesStack(CurInstr(nb).ex) => stack[nb] # <<>>
C18_Witness ==
    \E nb \in Notebooks :
        /\ status[nb] = "done"
        /\ err[nb] = None
        /\ \A x \in Names : env[nb][x] # Unbound
====
